---- MODULE Spec2Model ----
(***************************************************************************)
(* The instance lock manager (InstanceLockMgr.cpp): the permanent and the  *)
(* temporary store of player instance locks, the registry of weak handles  *)
(* to shared instance lock data, and the operations that change them.      *)
(*                                                                         *)
(* Encodings.                                                              *)
(*  - A store is a function from players to a partial function from lock   *)
(*    keys <<MapID, LockID>> to locks; a player without an entry in the    *)
(*    outer map is a player whose inner map is empty.                      *)
(*  - A completed-encounters mask (uint32) is the set of its set bits:     *)
(*    | is \cup, & ~ is \, 1u << b is {b}.                                 *)
(*  - The heap of SharedInstanceLockData objects is a partial function     *)
(*    from record ids to records; its domain is the set of live objects.   *)
(*    A std::shared_ptr is a record id, a std::weak_ptr is a record id or  *)
(*    ExpiredHandle once the object it pointed to was destroyed. An object *)
(*    is destroyed, and its destructor runs, in the step in which its last *)
(*    owning lock is destroyed.                                            *)
(*  - Time is seconds since the epoch, local time is UTC.                  *)
(*  - A failed ASSERT aborts the process: failed names the assertion and   *)
(*    no operation runs afterwards.                                        *)
(***************************************************************************)
EXTENDS Integers, Sequences, FiniteSets, TLC

(* ------------------------------ bounds --------------------------------- *)
\* mutating calls (create / update / extend) made after Load
MaxOps == 2
\* the same, in the specification of the instance-bound dungeon alone
MaxSharedOps == 4
\* clock advances
MaxTicks == 1
MaxSaveOps == 2

Players == {"P1", "P2"}
InstanceIds == {1, 2}
Bits == {0, 1}

(* --------------------------- map catalog ------------------------------- *)
\* The (Map, MapDifficulty) pairs the manager is asked about. MapDb2Entries
\* only carries the two catalog rows; the rows themselves are reference data.
Catalog ==
    [ IB   |-> [MapID |-> 100, LockID |-> 7, DifficultyID |-> 5, HasResetSchedule |-> TRUE,
                IsFlexLocking |-> FALSE, IsUsingEncounterLocks |-> FALSE, ResetInterval |-> "DAILY"],
      FLEX |-> [MapID |-> 200, LockID |-> 8, DifficultyID |-> 14, HasResetSchedule |-> TRUE,
                IsFlexLocking |-> TRUE, IsUsingEncounterLocks |-> FALSE, ResetInterval |-> "WEEKLY"],
      ENC  |-> [MapID |-> 300, LockID |-> 9, DifficultyID |-> 16, HasResetSchedule |-> TRUE,
                IsFlexLocking |-> FALSE, IsUsingEncounterLocks |-> TRUE, ResetInterval |-> "WEEKLY"],
      OPEN |-> [MapID |-> 400, LockID |-> 0, DifficultyID |-> 1, HasResetSchedule |-> FALSE,
                IsFlexLocking |-> FALSE, IsUsingEncounterLocks |-> FALSE, ResetInterval |-> "ANYTIME"] ]

Dungeons == DOMAIN Catalog

\* MapDb2Entries::GetKey
GetKey(d) == <<Catalog[d].MapID, Catalog[d].LockID>>

Keys == {GetKey(d) : d \in Dungeons}

\* MapDb2Entries::IsInstanceIdBound
IsInstanceIdBound(d) == ~Catalog[d].IsFlexLocking /\ ~Catalog[d].IsUsingEncounterLocks

(* ------------------------------ time ----------------------------------- *)
SecPerHour == 3600
SecPerDay == 86400
\* 1970-01-01 was a Thursday (tm_wday = 4)
EpochWday == 4
\* ResetSchedule.DailyHour, ResetSchedule.WeeklyDay (defaults)
DailyHour == 9
WeeklyDay == 2

\* Monday 12:00:00
StartTime == 4 * SecPerDay + 12 * SecPerHour
\* one clock advance: 22 hours (Mon 12:00 -> Tue 10:00 -> Wed 08:00 -> ...),
\* past the daily and the weekly reset that follow StartTime
TickStep == 22 * SecPerHour

TmWday(t) == ((t \div SecPerDay) + EpochWday) % 7
TmHour(t) == (t % SecPerDay) \div SecPerHour
DayStart(t) == (t \div SecPerDay) * SecPerDay

\* GetNextResetTime with > in place of the >= of lines 447 and 457
NextResetTime_LateRoll(interval, t, resetHour, resetDay) ==
    LET hour == TmHour(t)
        wday == TmWday(t)
    IN  CASE interval = "DAILY" ->
                DayStart(t) + (IF hour > resetHour THEN SecPerDay ELSE 0) + resetHour * SecPerHour
          [] interval = "WEEKLY" ->
                LET daysAdjust == (resetDay - wday)
                                  + (IF wday > resetDay \/ (wday = resetDay /\ hour > resetHour)
                                     THEN 7 ELSE 0)
                IN  DayStart(t) + daysAdjust * SecPerDay + resetHour * SecPerHour
          [] OTHER -> DayStart(t) + hour * SecPerHour

\* InstanceLockMgr::GetNextResetTime, lines 439-468, on the reset interval, the
\* time GameTime::GetDateAndTime() is the local time of, and the configured
\* ResetSchedule.DailyHour and ResetSchedule.WeeklyDay
NextResetTime(interval, t, resetHour, resetDay) ==
    LET hour == TmHour(t)
        wday == TmWday(t)
    IN  CASE interval = "DAILY" ->
                DayStart(t) + (IF hour >= resetHour THEN SecPerDay ELSE 0) + resetHour * SecPerHour
          [] interval = "WEEKLY" ->
                LET daysAdjust == (resetDay - wday)
                                  + (IF wday > resetDay \/ (wday = resetDay /\ hour >= resetHour)
                                     THEN 7 ELSE 0)
                IN  DayStart(t) + daysAdjust * SecPerDay + resetHour * SecPerHour
          [] OTHER -> DayStart(t) + hour * SecPerHour

\* InstanceLockMgr::GetNextResetTime with the default configuration
GetNextResetTime(d, t) == NextResetTime(Catalog[d].ResetInterval, t, DailyHour, WeeklyDay)

(* ------------------------------ state ---------------------------------- *)
VARIABLES
    instanceLocksByPlayer,           \* _instanceLocksByPlayer (permanent store)
    temporaryInstanceLocksByPlayer,  \* _temporaryInstanceLocksByPlayer
    instanceLockDataById,            \* _instanceLockDataById (registry of weak handles)
    sharedData,                      \* live SharedInstanceLockData objects
    unloading,                       \* _unloading
    now,                             \* GameTime::GetSystemTime()
    loaded,                          \* Load() has run
    failed,                          \* "none", or the ASSERT that aborted the process
    ops,                             \* mutating calls made so far
    sharedDeletes,                   \* instanceId -> DELETE FROM instance2 statements executed
    released,                        \* InstanceId -> owning locks of that shared data destroyed
    createdUnder,                    \* player, key -> the instanceId argument of the
                                     \* CreateInstanceLockForNewInstance call that made the
                                     \* temporary lock (instance-bound dungeons)
    events,                          \* registry erases and statements executed directly by
                                     \* the last call, in order
    trans,                           \* statements the last call appended to its transaction
    last                             \* the last call

vars == <<instanceLocksByPlayer, temporaryInstanceLocksByPlayer, instanceLockDataById,
          sharedData, unloading, now, loaded, failed, ops, sharedDeletes, released,
          createdUnder, events, trans, last>>

ExpiredHandle == 0
NoSharedData == 0

\* InstanceLock::InstanceLock / SharedInstanceLock::SharedInstanceLock
\* (InstanceLockData starts with empty Data and a zero mask)
NewInstanceLock(d, expiryTime, instanceId, shared) ==
    [mapId |-> Catalog[d].MapID, difficultyId |-> Catalog[d].DifficultyID,
     instanceId |-> instanceId, expiryTime |-> expiryTime, extended |-> FALSE,
     Data |-> <<>>, CompletedEncountersMask |-> {}, shared |-> shared]

\* SharedInstanceLockData::SharedInstanceLockData
NewSharedInstanceLockData == [InstanceId |-> 0, Data |-> <<>>, CompletedEncountersMask |-> {}]

\* InstanceLock::IsExpired
IsExpired(lock, t) == lock.expiryTime < t

\* MapDb2Entries::MapDb2Entries(mapId, difficulty): the catalog rows of a lock
MapDb2Entries(mapId, difficultyId) ==
    CHOOSE d \in Dungeons :
        Catalog[d].MapID = mapId /\ Catalog[d].DifficultyID = difficultyId

\* MapDifficultyEntry::GetRaidDuration, in seconds: one reset period of the
\* dungeon's reset interval
GetRaidDuration(d) ==
    CASE Catalog[d].ResetInterval = "DAILY" -> SecPerDay
      [] Catalog[d].ResetInterval = "WEEKLY" -> 7 * SecPerDay
      [] OTHER -> 0

\* InstanceLock::GetEffectiveExpiryTime
GetEffectiveExpiryTime(lock, t) ==
    IF ~lock.extended THEN lock.expiryTime
    ELSE LET entries == MapDb2Entries(lock.mapId, lock.difficultyId)
         IN  IF IsExpired(lock, t) THEN GetNextResetTime(entries, t)
             ELSE lock.expiryTime + GetRaidDuration(entries)

(* --------------------------- finite maps -------------------------------- *)
EmptyMap == [x \in {} |-> 0]
MapPut(f, k, v) == [x \in (DOMAIN f) \cup {k} |-> IF x = k THEN v ELSE f[x]]
MapErase(f, k) == [x \in (DOMAIN f) \ {k} |-> f[x]]

EmptyStore == [p \in Players |-> EmptyMap]

\* InstanceLockMgr::FindInstanceLock: the keys a player has in a store
HasLock(locks, p, k) == k \in DOMAIN locks[p]

(* ------------------- shared data: ownership and death ------------------- *)
\* the SharedInstanceLockData objects owned (std::shared_ptr) by the locks of a store
OwnedBy(locks) ==
    {locks[pk[1]][pk[2]].shared :
        pk \in {x \in Players \X Keys : x[2] \in DOMAIN locks[x[1]]}} \ {NoSharedData}

\* a finite set of numbers in ascending order
RECURSIVE Ascending(_)
Ascending(S) ==
    IF S = {} THEN <<>>
    ELSE LET m == CHOOSE x \in S : \A y \in S : x <= y
         IN  <<m>> \o Ascending(S \ {m})

Count(del, i) == IF i \in DOMAIN del THEN del[i] ELSE 0

\* OnSharedInstanceLockDataDelete without the erase of line 412
OnSharedInstanceLockDataDelete_NoErase(m, instanceId, unl) ==
    IF unl THEN m
    ELSE [reg |-> m.reg,
          del |-> MapPut(m.del, instanceId, Count(m.del, instanceId) + 1),
          ev  |-> m.ev \o << [ev |-> "DELETE FROM instance2", arg |-> <<instanceId>>] >>]

\* OnSharedInstanceLockDataDelete with lines 412 and 413 exchanged
OnSharedInstanceLockDataDelete_DeleteFirst(m, instanceId, unl) ==
    IF unl THEN m
    ELSE [reg |-> MapErase(m.reg, instanceId),
          del |-> MapPut(m.del, instanceId, Count(m.del, instanceId) + 1),
          ev  |-> m.ev \o << [ev |-> "DELETE FROM instance2", arg |-> <<instanceId>>],
                             [ev |-> "registry.erase", arg |-> <<instanceId>>] >>]

\* InstanceLockMgr::OnSharedInstanceLockDataDelete, on m = [reg, del, ev]:
\* the registry, the executed shared deletes and the event log
OnSharedInstanceLockDataDelete(m, instanceId, unl) ==
    IF unl THEN m
    ELSE [reg |-> MapErase(m.reg, instanceId),
          del |-> MapPut(m.del, instanceId, Count(m.del, instanceId) + 1),
          ev  |-> m.ev \o << [ev |-> "registry.erase", arg |-> <<instanceId>>],
                             [ev |-> "DELETE FROM instance2", arg |-> <<instanceId>>] >>]

\* SharedInstanceLockData::~SharedInstanceLockData
DestroySharedInstanceLockData(m, data, unl) ==
    IF data.InstanceId # 0
    THEN OnSharedInstanceLockDataDelete(m, data.InstanceId, unl)
    ELSE m

RECURSIVE RunDestructors(_, _, _, _)
RunDestructors(m, rids, sd, unl) ==
    IF rids = <<>> THEN m
    ELSE RunDestructors(DestroySharedInstanceLockData(m, sd[Head(rids)], unl), Tail(rids), sd, unl)

\* the locks of the two stores that own the object r
Owners(perm, temp, r) ==
    {x \in {"permanent", "temporary"} \X Players \X Keys :
        LET locks == IF x[1] = "permanent" THEN perm ELSE temp
        IN  x[3] \in DOMAIN locks[x[2]] /\ locks[x[2]][x[3]].shared = r}

\* std::shared_ptr: every object of sd that no lock of perm or temp owns is
\* destroyed; its destructor runs and the weak handles to it expire.
ReleaseSharedData(perm, temp, reg, sd, del, ev, unl) ==
    LET dying == (DOMAIN sd) \ (OwnedBy(perm) \cup OwnedBy(temp))
        m == RunDestructors([reg |-> reg, del |-> del, ev |-> ev], Ascending(dying), sd, unl)
    IN  [reg |-> [i \in DOMAIN m.reg |->
                    IF m.reg[i] \in dying THEN ExpiredHandle ELSE m.reg[i]],
         sd  |-> [r \in (DOMAIN sd) \ dying |-> sd[r]],
         del |-> m.del,
         ev  |-> m.ev]

\* the count of destroyed owning locks, per InstanceId of the shared data they
\* owned, after the stores went from (perm0, temp0) to (perm, temp)
RECURSIVE SumOver(_, _)
SumOver(f, S) ==
    IF S = {} THEN 0
    ELSE LET x == CHOOSE y \in S : TRUE IN f[x] + SumOver(f, S \ {x})

CountReleased(rel, perm0, temp0, perm, temp, sd) ==
    LET lost(r) == Cardinality(Owners(perm0, temp0, r)) - Cardinality(Owners(perm, temp, r))
        ids == {sd[r].InstanceId : r \in {x \in DOMAIN sd : lost(x) > 0}} \ {0}
        lostOf(i) == SumOver([r \in DOMAIN sd |-> lost(r)],
                             {x \in DOMAIN sd : sd[x].InstanceId = i /\ lost(x) > 0})
    IN  [i \in (DOMAIN rel) \cup ids |-> Count(rel, i) + (IF i \in ids THEN lostOf(i) ELSE 0)]

\* std::make_shared: a record id no live object has
NewRid(sd) == CHOOSE r \in 1..(Cardinality(DOMAIN sd) + 1) :
                  r \notin DOMAIN sd /\ \A q \in 1..(r - 1) : q \in DOMAIN sd

\* std::weak_ptr::lock / expired on a registry entry
Upgrade(reg, instanceId) == reg[instanceId]

(* ------------------------------ queries --------------------------------- *)
\* FindActiveInstanceLock without the expiry test of line 221
FindActiveInstanceLock_AnyPermanent(perm, temp, p, d, ignoreTemporary, ignoreExpired, t) ==
    LET k == GetKey(d)
    IN  IF HasLock(perm, p, k) THEN "permanent"
        ELSE IF ignoreTemporary THEN "none"
        ELSE IF HasLock(temp, p, k) THEN "temporary"
        ELSE "none"

\* InstanceLockMgr::FindActiveInstanceLock(playerGuid, entries, ignoreTemporary,
\* ignoreExpired): the store whose lock under the key is returned, or "none"
FindActiveInstanceLock(perm, temp, p, d, ignoreTemporary, ignoreExpired, t) ==
    LET k == GetKey(d)
    IN  IF HasLock(perm, p, k)
           /\ (~IsExpired(perm[p][k], t) \/ perm[p][k].extended \/ ~ignoreExpired)
        THEN "permanent"
        ELSE IF ignoreTemporary THEN "none"
        ELSE IF HasLock(temp, p, k) THEN "temporary"
        ELSE "none"

\* InstanceLockMgr::FindActiveInstanceLock(playerGuid, entries)
FindActiveInstanceLockDefault(perm, temp, p, d, t) ==
    FindActiveInstanceLock(perm, temp, p, d, FALSE, TRUE, t)

\* the lock a FindActiveInstanceLock result points to
LockAt(perm, temp, p, d, where) ==
    IF where = "permanent" THEN perm[p][GetKey(d)] ELSE temp[p][GetKey(d)]

\* CanJoinInstanceLock without the GetInstanceId() != 0 test of line 192
CanJoinInstanceLock_NoZeroTest(perm, temp, p, d, instanceLock, t) ==
    IF ~Catalog[d].HasResetSchedule THEN "TRANSFER_ABORT_NONE"
    ELSE LET where == FindActiveInstanceLockDefault(perm, temp, p, d, t)
         IN  IF where = "none" THEN "TRANSFER_ABORT_NONE"
             ELSE LET playerInstanceLock == LockAt(perm, temp, p, d, where)
                  IN  IF Catalog[d].IsFlexLocking
                      THEN IF (playerInstanceLock.CompletedEncountersMask
                                   \ instanceLock.CompletedEncountersMask) # {}
                           THEN "TRANSFER_ABORT_ALREADY_COMPLETED_ENCOUNTER"
                           ELSE "TRANSFER_ABORT_NONE"
                      ELSE IF /\ ~Catalog[d].IsUsingEncounterLocks
                              /\ playerInstanceLock.instanceId # instanceLock.instanceId
                           THEN "TRANSFER_ABORT_LOCKED_TO_DIFFERENT_INSTANCE"
                           ELSE "TRANSFER_ABORT_NONE"

\* CanJoinInstanceLock with the operands of line 186 exchanged
CanJoinInstanceLock_MasksExchanged(perm, temp, p, d, instanceLock, t) ==
    IF ~Catalog[d].HasResetSchedule THEN "TRANSFER_ABORT_NONE"
    ELSE LET where == FindActiveInstanceLockDefault(perm, temp, p, d, t)
         IN  IF where = "none" THEN "TRANSFER_ABORT_NONE"
             ELSE LET playerInstanceLock == LockAt(perm, temp, p, d, where)
                  IN  IF Catalog[d].IsFlexLocking
                      THEN IF (instanceLock.CompletedEncountersMask
                                   \ playerInstanceLock.CompletedEncountersMask) # {}
                           THEN "TRANSFER_ABORT_ALREADY_COMPLETED_ENCOUNTER"
                           ELSE "TRANSFER_ABORT_NONE"
                      ELSE IF /\ ~Catalog[d].IsUsingEncounterLocks
                              /\ playerInstanceLock.instanceId # 0
                              /\ playerInstanceLock.instanceId # instanceLock.instanceId
                           THEN "TRANSFER_ABORT_LOCKED_TO_DIFFERENT_INSTANCE"
                           ELSE "TRANSFER_ABORT_NONE"

\* InstanceLockMgr::CanJoinInstanceLock; instanceLock is the candidate instance's lock
CanJoinInstanceLock(perm, temp, p, d, instanceLock, t) ==
    IF ~Catalog[d].HasResetSchedule THEN "TRANSFER_ABORT_NONE"
    ELSE LET where == FindActiveInstanceLockDefault(perm, temp, p, d, t)
         IN  IF where = "none" THEN "TRANSFER_ABORT_NONE"
             ELSE LET playerInstanceLock == LockAt(perm, temp, p, d, where)
                  IN  IF Catalog[d].IsFlexLocking
                      THEN IF (playerInstanceLock.CompletedEncountersMask
                                   \ instanceLock.CompletedEncountersMask) # {}
                           THEN "TRANSFER_ABORT_ALREADY_COMPLETED_ENCOUNTER"
                           ELSE "TRANSFER_ABORT_NONE"
                      ELSE IF /\ ~Catalog[d].IsUsingEncounterLocks
                              /\ playerInstanceLock.instanceId # 0
                              /\ playerInstanceLock.instanceId # instanceLock.instanceId
                           THEN "TRANSFER_ABORT_LOCKED_TO_DIFFERENT_INSTANCE"
                           ELSE "TRANSFER_ABORT_NONE"

(* ------------------------------ calls ----------------------------------- *)
Call(op, p, d, instanceId, path) ==
    [op |-> op, player |-> p, dungeon |-> d, instanceId |-> instanceId, path |-> path]

\* a call of UpdateInstanceLockForPlayer, with its InstanceLockUpdateEvent argument
CallUpdate(p, d, updateEvent, path) ==
    [op |-> "Update", player |-> p, dungeon |-> d, instanceId |-> updateEvent.InstanceId,
     path |-> path, updateEvent |-> updateEvent]

Init ==
    /\ instanceLocksByPlayer = EmptyStore
    /\ temporaryInstanceLocksByPlayer = EmptyStore
    /\ instanceLockDataById = EmptyMap
    /\ sharedData = EmptyMap
    /\ unloading = FALSE
    /\ now = StartTime
    /\ loaded = FALSE
    /\ failed = "none"
    /\ ops = 0
    /\ sharedDeletes = EmptyMap
    /\ released = EmptyMap
    /\ createdUnder = EmptyStore
    /\ events = <<>>
    /\ trans = <<>>
    /\ last = Call("new", "-", "-", 0, "-")

\* calls are made between Load (startup) and Unload (shutdown), by a live process
Running == loaded /\ ~unloading /\ failed = "none"

\* the world clock advances between calls
Tick ==
    /\ Running
    /\ now < StartTime + MaxTicks * TickStep
    /\ now' = now + TickStep
    /\ events' = <<>>
    /\ trans' = <<>>
    /\ last' = Call("Tick", "-", "-", 0, "-")
    /\ UNCHANGED <<instanceLocksByPlayer, temporaryInstanceLocksByPlayer, instanceLockDataById,
                   sharedData, unloading, loaded, failed, ops, sharedDeletes, released,
                   createdUnder>>

\* the lock of lines 254-259 made with the instance id of the new instance
NewTemporaryLock_KeepsInstanceId(d, t, instanceId, shared) ==
    NewInstanceLock(d, GetNextResetTime(d, t), instanceId, shared)

\* CreateInstanceLockForNewInstance, lines 254-259: the new lock expires at the
\* next reset and has the instance id 0, whatever the id of the new instance
NewTemporaryLock(d, t, instanceId, shared) ==
    NewInstanceLock(d, GetNextResetTime(d, t), 0, shared)

\* InstanceLockMgr::CreateInstanceLockForNewInstance
CreateInstanceLockForNewInstance(p, d, instanceId) ==
    /\ Running
    /\ ops' = ops + 1
    /\ IF ~Catalog[d].HasResetSchedule
       THEN /\ last' = Call("Create", p, d, instanceId, "nullptr")
            /\ events' = <<>>
            /\ UNCHANGED <<instanceLocksByPlayer, temporaryInstanceLocksByPlayer,
                           instanceLockDataById, sharedData, sharedDeletes, released,
                           createdUnder>>
       ELSE LET bound == IsInstanceIdBound(d)
                rid == NewRid(sharedData)
                sd1 == IF bound THEN MapPut(sharedData, rid, NewSharedInstanceLockData)
                       ELSE sharedData
                reg1 == IF bound THEN MapPut(instanceLockDataById, instanceId, rid)
                        ELSE instanceLockDataById
                instanceLock == NewTemporaryLock(d, now, instanceId,
                                                 IF bound THEN rid ELSE NoSharedData)
                temp1 == [temporaryInstanceLocksByPlayer EXCEPT
                            ![p] = MapPut(@, GetKey(d), instanceLock)]
                r == ReleaseSharedData(instanceLocksByPlayer, temp1, reg1, sd1,
                                       sharedDeletes, <<>>, unloading)
            IN  /\ temporaryInstanceLocksByPlayer' = temp1
                /\ instanceLockDataById' = r.reg
                /\ sharedData' = r.sd
                /\ sharedDeletes' = r.del
                /\ released' = CountReleased(released, instanceLocksByPlayer,
                                             temporaryInstanceLocksByPlayer,
                                             instanceLocksByPlayer, temp1, sharedData)
                /\ createdUnder' = (IF bound
                                     THEN [createdUnder EXCEPT ![p] = MapPut(@, GetKey(d), instanceId)]
                                     ELSE createdUnder)
                /\ events' = r.ev
                /\ last' = Call("Create", p, d, instanceId, "temporary")
                /\ UNCHANGED instanceLocksByPlayer
    /\ trans' = <<>>
    /\ UNCHANGED <<unloading, now, loaded, failed>>

\* Unload with _unloading set after the stores are cleared
Unload_FlagSetLast ==
    /\ Running
    /\ LET r == ReleaseSharedData(EmptyStore, temporaryInstanceLocksByPlayer,
                                  instanceLockDataById, sharedData, sharedDeletes, <<>>, FALSE)
       IN  /\ unloading' = TRUE
           /\ instanceLocksByPlayer' = EmptyStore
           /\ instanceLockDataById' = EmptyMap
           /\ sharedData' = r.sd
           /\ sharedDeletes' = r.del
           /\ released' = CountReleased(released, instanceLocksByPlayer,
                                        temporaryInstanceLocksByPlayer, EmptyStore,
                                        temporaryInstanceLocksByPlayer, sharedData)
           /\ events' = r.ev
    /\ trans' = <<>>
    /\ last' = Call("Unload", "-", "-", 0, "-")
    /\ UNCHANGED <<temporaryInstanceLocksByPlayer, now, loaded, failed, ops, createdUnder>>

\* InstanceLockMgr::Unload
Unload ==
    /\ Running
    /\ LET r == ReleaseSharedData(EmptyStore, temporaryInstanceLocksByPlayer,
                                  instanceLockDataById, sharedData, sharedDeletes, <<>>, TRUE)
       IN  /\ unloading' = TRUE
           /\ instanceLocksByPlayer' = EmptyStore
           /\ instanceLockDataById' = EmptyMap
           /\ sharedData' = r.sd
           /\ sharedDeletes' = r.del
           /\ released' = CountReleased(released, instanceLocksByPlayer,
                                        temporaryInstanceLocksByPlayer, EmptyStore,
                                        temporaryInstanceLocksByPlayer, sharedData)
           /\ events' = r.ev
    /\ trans' = <<>>
    /\ last' = Call("Unload", "-", "-", 0, "-")
    /\ UNCHANGED <<temporaryInstanceLocksByPlayer, now, loaded, failed, ops, createdUnder>>

\* PromoteTemporary without the erase of line 287
PromoteTemporary_KeepsTemporary(perm, temp, p, k) ==
    [perm |-> [perm EXCEPT ![p] = MapPut(@, k, temp[p][k])],
     temp |-> temp]

\* UpdateInstanceLockForPlayer, lines 278-296: the temporary lock under the key
\* moves into the permanent store and its temporary slot is erased
PromoteTemporary(perm, temp, p, k) ==
    [perm |-> [perm EXCEPT ![p] = MapPut(@, k, temp[p][k])],
     temp |-> [temp EXCEPT ![p] = MapErase(@, k)]]

\* UpdateInstanceLockForPlayer, lines 334-347
\* ApplyUpdateEvent without the IsUsingEncounterLocks test of line 343
ApplyUpdateEvent_AlwaysInstanceMask(lock, d, updateEvent) ==
    [lock EXCEPT
        !.Data = updateEvent.NewData,
        !.CompletedEncountersMask =
            (@ \cup {updateEvent.CompletedEncounter[n] :
                        n \in 1..Len(updateEvent.CompletedEncounter)})
            \cup updateEvent.InstanceCompletedEncountersMask]

ApplyUpdateEvent(lock, d, updateEvent) ==
    [lock EXCEPT
        !.Data = updateEvent.NewData,
        !.CompletedEncountersMask =
            (@ \cup {updateEvent.CompletedEncounter[n] :
                        n \in 1..Len(updateEvent.CompletedEncounter)})
            \cup (IF ~Catalog[d].IsUsingEncounterLocks
                  THEN updateEvent.InstanceCompletedEncountersMask ELSE {})]

\* Resurrect without the SetExtended(false) of line 353
Resurrect_StaysExtended(lock, d, t) ==
    IF IsExpired(lock, t)
    THEN [lock EXCEPT !.expiryTime = GetNextResetTime(d, t)]
    ELSE lock

\* UpdateInstanceLockForPlayer, lines 349-358 (past the ASSERT)
Resurrect(lock, d, t) ==
    IF IsExpired(lock, t)
    THEN [lock EXCEPT !.expiryTime = GetNextResetTime(d, t), !.extended = FALSE]
    ELSE lock

\* UpdateInstanceLockForPlayer, lines 354-357: the debug line of the resurrection
LogResurrected(lock, t) ==
    IF IsExpired(lock, t)
    THEN << [ev |-> "log: expired instance lock is now active", arg |-> <<>>] >>
    ELSE <<>>

\* CharacterDatabase.EscapeString, on a string held as a sequence of characters:
\* a backslash goes before every double quote, single quote and backslash
EscapedChars == {"\"", "'", "\\"}
RECURSIVE EscapeString(_)
EscapeString(str) ==
    IF str = <<>> THEN <<>>
    ELSE (IF Head(str) \in EscapedChars THEN <<"\\", Head(str)>> ELSE <<Head(str)>>)
         \o EscapeString(Tail(str))

\* SaveStatements with the INSERT appended before the DELETE
SaveStatements_InsertFirst(p, d, lock) ==
    << [stmt |-> "INSERT", table |-> "character_instance_lock",
        key |-> <<p, Catalog[d].MapID, Catalog[d].LockID>>,
        row |-> << [instanceId |-> lock.instanceId, difficulty |-> Catalog[d].DifficultyID,
                    data |-> EscapeString(lock.Data),
                    completedEncountersMask |-> lock.CompletedEncountersMask,
                    expiryTime |-> lock.expiryTime, extended |-> lock.extended] >>],
       [stmt |-> "DELETE", table |-> "character_instance_lock",
        key |-> <<p, Catalog[d].MapID, Catalog[d].LockID>>, row |-> <<>>] >>

\* UpdateInstanceLockForPlayer, lines 360-377
SaveStatements(p, d, lock) ==
    << [stmt |-> "DELETE", table |-> "character_instance_lock",
        key |-> <<p, Catalog[d].MapID, Catalog[d].LockID>>, row |-> <<>>],
       [stmt |-> "INSERT", table |-> "character_instance_lock",
        key |-> <<p, Catalog[d].MapID, Catalog[d].LockID>>,
        row |-> << [instanceId |-> lock.instanceId, difficulty |-> Catalog[d].DifficultyID,
                    data |-> EscapeString(lock.Data),
                    completedEncountersMask |-> lock.CompletedEncountersMask,
                    expiryTime |-> lock.expiryTime, extended |-> lock.extended] >>] >>

\* UpdateSharedInstanceLock, lines 397-404, for the record data
SharedSaveStatements(data) ==
    << [stmt |-> "DELETE", table |-> "instance2", key |-> <<data.InstanceId>>, row |-> <<>>],
       [stmt |-> "INSERT", table |-> "instance2", key |-> <<data.InstanceId>>,
        row |-> << [instanceId |-> data.InstanceId, data |-> EscapeString(data.Data),
                    completedEncountersMask |-> data.CompletedEncountersMask] >>] >>

\* UpdateInstanceLockForPlayer, lines 301-309, without the ASSERT of line 309
AssertCreated_NoIdCheck(bound, reg, sd, id) ==
    IF ~bound THEN "none"
    ELSE IF id \notin DOMAIN reg THEN "ASSERT:304"
    ELSE IF Upgrade(reg, id) = ExpiredHandle THEN "ASSERT:305"
    ELSE "none"

\* UpdateInstanceLockForPlayer, lines 301-309: the ASSERTs of the branch that
\* makes a new permanent lock
AssertCreated(bound, reg, sd, id) ==
    IF ~bound THEN "none"
    ELSE IF id \notin DOMAIN reg THEN "ASSERT:304"
    ELSE IF Upgrade(reg, id) = ExpiredHandle THEN "ASSERT:305"
    ELSE IF sd[Upgrade(reg, id)].InstanceId # id THEN "ASSERT:309"
    ELSE "none"

\* InstanceLock::SetInstanceId as called at line 331. Its body is declared in
\* InstanceLockMgr.h; the design text has the lock take the event's instance id
\* and the shared record of an instance-bound lock get its InstanceId assigned
\* at promotion.
SetInstanceId(lock, instanceId) == [lock EXCEPT !.instanceId = instanceId]

SetSharedInstanceId(sd, lock, instanceId) ==
    IF lock.shared # NoSharedData
    THEN [sd EXCEPT ![lock.shared].InstanceId = instanceId]
    ELSE sd

\* InstanceLockMgr::UpdateInstanceLockForPlayer
UpdateInstanceLockForPlayer(p, d, updateEvent) ==
    /\ Running
    /\ ops' = ops + 1
    /\ LET k == GetKey(d)
           id == updateEvent.InstanceId
           perm == instanceLocksByPlayer
           temp == temporaryInstanceLocksByPlayer
           reg == instanceLockDataById
           bound == IsInstanceIdBound(d)
           usable == FindActiveInstanceLock(perm, temp, p, d, TRUE, TRUE, now) = "permanent"
           promote == ~usable /\ HasLock(temp, p, k)
           path == IF usable THEN "found" ELSE IF promote THEN "promoted" ELSE "created"
           \* lines 272-297
           sA == IF promote THEN PromoteTemporary(perm, temp, p, k)
                 ELSE [perm |-> perm, temp |-> temp]
           rA == ReleaseSharedData(sA.perm, sA.temp, reg, sharedData, sharedDeletes,
                                   <<>>, unloading)
           \* lines 301-310
           assertCreated == AssertCreated(bound, reg, sharedData, id)
           newLock == NewInstanceLock(d, GetNextResetTime(d, now), id,
                                      IF bound THEN Upgrade(reg, id) ELSE NoSharedData)
           \* line 315
           permC == [perm EXCEPT ![p] = MapPut(@, k, newLock)]
           rC == ReleaseSharedData(permC, temp, reg, sharedData, sharedDeletes,
                                   <<>>, unloading)
           \* lines 323-329
           lockA == sA.perm[p][k]
           assertExisting ==
               IF ~bound THEN "none"
               ELSE IF lockA.instanceId # 0 /\ lockA.instanceId # id THEN "ASSERT:325"
               ELSE IF id \notin DOMAIN rA.reg THEN "ASSERT:327"
               ELSE IF Upgrade(rA.reg, id) # lockA.shared THEN "ASSERT:328"
               ELSE "none"
           assert1 == IF path = "created" THEN assertCreated ELSE assertExisting
           \* line 331 (SetInstanceId) or line 315
           perm1 == IF path = "created" THEN permC
                    ELSE [sA.perm EXCEPT ![p][k] = SetInstanceId(@, id)]
           temp1 == IF path = "created" THEN temp ELSE sA.temp
           r1 == IF path = "created" THEN rC ELSE rA
           sd1 == IF path = "created" THEN rC.sd
                  ELSE SetSharedInstanceId(rA.sd, lockA, id)
           lock2 == ApplyUpdateEvent(perm1[p][k], d, updateEvent)
           \* line 351
           assert2 == IF IsExpired(lock2, now) /\ ~lock2.extended THEN "ASSERT:351" ELSE "none"
           lock3 == Resurrect(lock2, d, now)
       IN  IF assert1 # "none"
           THEN \* aborted before any lock was changed; a promotion has happened
                /\ failed' = assert1
                /\ instanceLocksByPlayer' = (IF path = "created" THEN perm ELSE sA.perm)
                /\ temporaryInstanceLocksByPlayer' = (IF path = "created" THEN temp ELSE sA.temp)
                /\ instanceLockDataById' = (IF path = "created" THEN reg ELSE rA.reg)
                /\ sharedData' = (IF path = "created" THEN sharedData ELSE rA.sd)
                /\ sharedDeletes' = (IF path = "created" THEN sharedDeletes ELSE rA.del)
                /\ released' = (IF path = "created" THEN released
                                ELSE CountReleased(released, perm, temp, sA.perm, sA.temp,
                                                   sharedData))
                /\ events' = (IF path = "created" THEN <<>> ELSE rA.ev)
                /\ trans' = <<>>
                /\ last' = CallUpdate(p, d, updateEvent, path)
           ELSE IF assert2 # "none"
           THEN /\ failed' = assert2
                /\ instanceLocksByPlayer' = [perm1 EXCEPT ![p][k] = lock2]
                /\ temporaryInstanceLocksByPlayer' = temp1
                /\ instanceLockDataById' = r1.reg
                /\ sharedData' = sd1
                /\ sharedDeletes' = r1.del
                /\ released' = CountReleased(released, perm, temp, perm1, temp1, sharedData)
                /\ events' = r1.ev
                /\ trans' = <<>>
                /\ last' = CallUpdate(p, d, updateEvent, path)
           ELSE /\ failed' = "none"
                /\ instanceLocksByPlayer' = [perm1 EXCEPT ![p][k] = lock3]
                /\ temporaryInstanceLocksByPlayer' = temp1
                /\ instanceLockDataById' = r1.reg
                /\ sharedData' = sd1
                /\ sharedDeletes' = r1.del
                /\ released' = CountReleased(released, perm, temp, perm1, temp1, sharedData)
                /\ events' = r1.ev \o LogResurrected(lock2, now)
                /\ trans' = SaveStatements(p, d, lock3)
                /\ last' = CallUpdate(p, d, updateEvent, path)
    /\ createdUnder' =
            (IF FindActiveInstanceLock(instanceLocksByPlayer, temporaryInstanceLocksByPlayer,
                                       p, d, TRUE, TRUE, now) # "permanent"
             THEN [createdUnder EXCEPT ![p] = MapErase(@, GetKey(d))]
             ELSE createdUnder)
    /\ UNCHANGED <<unloading, now, loaded>>

\* UpdateInstanceLockExtensionForPlayer with ignoreExpired = true in the lookup
\* of line 419
UpdateInstanceLockExtensionForPlayer_ActiveOnly(p, d, extended) ==
    /\ Running
    /\ ops' = ops + 1
    /\ IF FindActiveInstanceLock(instanceLocksByPlayer, temporaryInstanceLocksByPlayer,
                                 p, d, TRUE, TRUE, now) = "permanent"
       THEN /\ instanceLocksByPlayer' =
                    [instanceLocksByPlayer EXCEPT ![p][GetKey(d)].extended = extended]
            /\ events' = << [ev |-> "UPDATE character_instance_lock SET extended",
                             arg |-> <<extended, p, Catalog[d].MapID, Catalog[d].LockID>>] >>
            /\ last' = Call("Extend", p, d, 0, "found")
       ELSE /\ UNCHANGED instanceLocksByPlayer
            /\ events' = <<>>
            /\ last' = Call("Extend", p, d, 0, "nullptr")
    /\ trans' = <<>>
    /\ UNCHANGED <<temporaryInstanceLocksByPlayer, instanceLockDataById, sharedData,
                   unloading, now, loaded, failed, sharedDeletes, released, createdUnder>>

\* InstanceLockMgr::UpdateInstanceLockExtensionForPlayer
UpdateInstanceLockExtensionForPlayer(p, d, extended) ==
    /\ Running
    /\ ops' = ops + 1
    /\ IF FindActiveInstanceLock(instanceLocksByPlayer, temporaryInstanceLocksByPlayer,
                                 p, d, TRUE, FALSE, now) = "permanent"
       THEN /\ instanceLocksByPlayer' =
                    [instanceLocksByPlayer EXCEPT ![p][GetKey(d)].extended = extended]
            /\ events' = << [ev |-> "UPDATE character_instance_lock SET extended",
                             arg |-> <<extended, p, Catalog[d].MapID, Catalog[d].LockID>>] >>
            /\ last' = Call("Extend", p, d, 0, "found")
       ELSE /\ UNCHANGED instanceLocksByPlayer
            /\ events' = <<>>
            /\ last' = Call("Extend", p, d, 0, "nullptr")
    /\ trans' = <<>>
    /\ UNCHANGED <<temporaryInstanceLocksByPlayer, instanceLockDataById, sharedData,
                   unloading, now, loaded, failed, sharedDeletes, released, createdUnder>>

\* a call of UpdateSharedInstanceLock, with its InstanceLockUpdateEvent argument
CallUpdateShared(updateEvent, path) ==
    [op |-> "UpdateShared", player |-> "-", dungeon |-> "-",
     instanceId |-> updateEvent.InstanceId, path |-> path, updateEvent |-> updateEvent]

\* InstanceLockMgr::UpdateSharedInstanceLock
UpdateSharedInstanceLock(updateEvent) ==
    /\ Running
    /\ ops' = ops + 1
    /\ LET id == updateEvent.InstanceId
           reg == instanceLockDataById
           \* line 385
           found == id \in DOMAIN reg
           \* line 386
           rid == IF found THEN Upgrade(reg, id) ELSE ExpiredHandle
           \* line 387
           matching == rid # ExpiredHandle /\ sharedData[rid].InstanceId = id
           encounter == {updateEvent.CompletedEncounter[n] :
                            n \in 1..Len(updateEvent.CompletedEncounter)}
       IN  IF ~found \/ ~matching
           THEN /\ failed' = (IF ~found THEN "ASSERT:385" ELSE "ASSERT:387")
                /\ sharedData' = sharedData
                /\ events' = <<>>
                /\ trans' = <<>>
                /\ last' = CallUpdateShared(updateEvent, "assert")
           ELSE LET data == [sharedData[rid] EXCEPT
                                !.Data = updateEvent.NewData,
                                !.CompletedEncountersMask = @ \cup encounter]
                IN  /\ failed' = "none"
                    /\ sharedData' = [sharedData EXCEPT ![rid] = data]
                    /\ events' = (IF encounter # {}
                                  THEN << [ev |-> "log: instance gains completed encounter",
                                           arg |-> <<id>>] >>
                                  ELSE <<>>)
                    /\ trans' = SharedSaveStatements(data)
                    /\ last' = CallUpdateShared(updateEvent, "saved")
    /\ UNCHANGED <<instanceLocksByPlayer, temporaryInstanceLocksByPlayer, instanceLockDataById,
                   unloading, now, loaded, sharedDeletes, released, createdUnder>>

(* ------------------------------- Load ----------------------------------- *)
\* LoadLockRows with the continue of line 148 replaced by a break
RECURSIVE LoadLockRows_StopAtOrphan(_, _, _, _, _)
LoadLockRows_StopAtOrphan(rows, local, perm, reg, ev) ==
    IF rows = <<>> THEN [perm |-> perm, reg |-> reg, ev |-> ev]
    ELSE LET row == Head(rows)
             d == row.dungeon
             base == NewInstanceLock(d, row.expiryTime, row.instanceId,
                                     IF IsInstanceIdBound(d) /\ row.instanceId \in DOMAIN local
                                     THEN local[row.instanceId] ELSE NoSharedData)
             instanceLock == [base EXCEPT !.Data = row.data,
                                          !.CompletedEncountersMask = row.completedEncountersMask,
                                          !.extended = row.extended]
             stored == [perm EXCEPT ![row.guid] = MapPut(@, GetKey(d), instanceLock)]
         IN  IF IsInstanceIdBound(d) /\ row.instanceId \notin DOMAIN local
             THEN [perm |-> perm, reg |-> reg,
                   ev |-> ev \o << [ev |-> "DELETE FROM character_instance_lock WHERE instanceId",
                                    arg |-> <<row.instanceId>>] >>]
             ELSE LoadLockRows_StopAtOrphan(Tail(rows), local, stored,
                      IF IsInstanceIdBound(d)
                      THEN MapPut(reg, row.instanceId, local[row.instanceId]) ELSE reg,
                      ev)

\* Load, lines 126-163: the rows of character_instance_lock in result order.
\* local is Load's instanceLockDataById (instanceId -> shared_ptr).
RECURSIVE LoadLockRows(_, _, _, _, _)
LoadLockRows(rows, local, perm, reg, ev) ==
    IF rows = <<>> THEN [perm |-> perm, reg |-> reg, ev |-> ev]
    ELSE LET row == Head(rows)
             d == row.dungeon
             base == NewInstanceLock(d, row.expiryTime, row.instanceId,
                                     IF IsInstanceIdBound(d) /\ row.instanceId \in DOMAIN local
                                     THEN local[row.instanceId] ELSE NoSharedData)
             instanceLock == [base EXCEPT !.Data = row.data,
                                          !.CompletedEncountersMask = row.completedEncountersMask,
                                          !.extended = row.extended]
             stored == [perm EXCEPT ![row.guid] = MapPut(@, GetKey(d), instanceLock)]
         IN  IF IsInstanceIdBound(d) /\ row.instanceId \notin DOMAIN local
             THEN \* orphan: the row is deleted and skipped
                  LoadLockRows(Tail(rows), local, perm, reg,
                      ev \o << [ev |-> "DELETE FROM character_instance_lock WHERE instanceId",
                                arg |-> <<row.instanceId>>] >>)
             ELSE LoadLockRows(Tail(rows), local, stored,
                      IF IsInstanceIdBound(d)
                      THEN MapPut(reg, row.instanceId, local[row.instanceId]) ELSE reg,
                      ev)

\* InstanceLockMgr::Load; db = [instance: rows of the shared table,
\* character_instance_lock: rows of the per-player table]. Called once, at startup.
Load(db) ==
    /\ ~loaded
    /\ failed = "none"
    /\ LET ids == Ascending({row.instanceId : row \in db.instance})
           \* lines 106-121
           heap == [r \in 1..Len(ids) |->
                       LET row == CHOOSE x \in db.instance : x.instanceId = ids[r]
                       IN  [InstanceId |-> row.instanceId, Data |-> row.data,
                            CompletedEncountersMask |-> row.completedEncountersMask]]
           local == [i \in {ids[r] : r \in 1..Len(ids)} |->
                       CHOOSE r \in 1..Len(ids) : ids[r] = i]
           l == LoadLockRows(db.character_instance_lock, local, instanceLocksByPlayer,
                             instanceLockDataById, <<>>)
           \* line 165: local goes out of scope
           r == ReleaseSharedData(l.perm, temporaryInstanceLocksByPlayer, l.reg, heap,
                                  sharedDeletes, l.ev, unloading)
       IN  /\ instanceLocksByPlayer' = l.perm
           /\ instanceLockDataById' = r.reg
           /\ sharedData' = r.sd
           /\ sharedDeletes' = r.del
           /\ events' = r.ev
    /\ loaded' = TRUE
    /\ trans' = <<>>
    /\ last' = Call("Load", "-", "-", 0, "-")
    /\ UNCHANGED <<temporaryInstanceLocksByPlayer, unloading, now, failed, ops, released,
                   createdUnder>>

(* ------------------------------ inputs ---------------------------------- *)
\* the database images Load is run on: any subset of LoadInstanceIds in the shared
\* table, and at most one row per player in the per-player table (extended or
\* not for the first player)
LoadInstanceIds == {1}
LoadPlayers == <<"P1", "P2">>
LoadDungeons == {"IB"}
\* Monday 09:00, an instant before StartTime at which a lock written before the
\* restart expires
LoadExpiryTime(d) == GetNextResetTime(d, StartTime - SecPerDay)

InstanceRows ==
    {[instanceId |-> i, data |-> <<"s">>, completedEncountersMask |-> {}] : i \in LoadInstanceIds}

LockRows(p) ==
    {[guid |-> p, dungeon |-> d, instanceId |-> i, data |-> <<"r">>,
      completedEncountersMask |-> {}, expiryTime |-> LoadExpiryTime(d), extended |-> x] :
        d \in LoadDungeons, i \in LoadInstanceIds,
        x \in (IF p = Head(LoadPlayers) THEN BOOLEAN ELSE {FALSE})}

RECURSIVE RowSeqs(_)
RowSeqs(ps) ==
    IF ps = <<>> THEN {<<>>}
    ELSE RowSeqs(Tail(ps))
         \cup {<<row>> \o rest : row \in LockRows(Head(ps)), rest \in RowSeqs(Tail(ps))}

DbImages ==
    {[instance |-> S, character_instance_lock |-> rows] :
        S \in SUBSET InstanceRows, rows \in RowSeqs(LoadPlayers)}

\* the (player, dungeon) pairs the calls are made for: P1 enters every dungeon,
\* P2 the instance-bound one
Slots == ({"P1"} \X Dungeons) \cup ({"P2"} \X {"IB"})
SharedSlots == Players \X {"IB"}

\* the update events tried: a completed encounter (bit 0), or instance-wide
\* progress (bit 1)
UpdateEvents ==
    {[InstanceId |-> i, NewData |-> <<"a">>, CompletedEncounter |-> e[1],
      InstanceCompletedEncountersMask |-> e[2]] :
        i \in InstanceIds, e \in {<< <<0>>, {} >>, << <<>>, {1} >>}}
SharedUpdateEvents == {e \in UpdateEvents : e.CompletedEncounter # <<>>}

(* --------------------------- specification ------------------------------ *)
Next ==
    \/ \E db \in DbImages : Load(db)
    \/ Tick
    \/ ops < MaxOps /\ \E s \in Slots, i \in InstanceIds :
            CreateInstanceLockForNewInstance(s[1], s[2], i)
    \/ ops < MaxOps /\ \E s \in Slots, e \in UpdateEvents :
            UpdateInstanceLockForPlayer(s[1], s[2], e)
    \/ ops < MaxOps /\ \E s \in Slots, x \in BOOLEAN :
            UpdateInstanceLockExtensionForPlayer(s[1], s[2], x)
    \/ Unload

Spec == Init /\ [][Next]_vars

\* the same calls, made for the instance-bound dungeon only, and more of them
NextShared ==
    \/ \E db \in DbImages : Load(db)
    \/ Tick
    \/ ops < MaxSharedOps /\ \E s \in SharedSlots, i \in InstanceIds :
            CreateInstanceLockForNewInstance(s[1], s[2], i)
    \/ ops < MaxSharedOps /\ \E s \in SharedSlots, e \in SharedUpdateEvents :
            UpdateInstanceLockForPlayer(s[1], s[2], e)
    \/ ops < MaxSharedOps /\ \E s \in SharedSlots, x \in BOOLEAN :
            UpdateInstanceLockExtensionForPlayer(s[1], s[2], x)
    \/ Unload

SpecShared == Init /\ [][NextShared]_vars

\* the calls that save: updates of player locks and of shared records, with
\* payloads that hold characters EscapeString rewrites
SaveSlots == {<<"P1", "IB">>, <<"P1", "FLEX">>}
SaveInstanceIds == {1}
SavePayloads == {<<"a">>, <<"\"">>, <<"\\", "'">>}
SaveUpdateEvents ==
    {[InstanceId |-> i, NewData |-> data, CompletedEncounter |-> e[1],
      InstanceCompletedEncountersMask |-> e[2]] :
        i \in SaveInstanceIds, data \in SavePayloads,
        e \in {<< <<0>>, {} >>, << <<>>, {1} >>, << <<1>>, {0} >>}}

NextSave ==
    \/ \E db \in DbImages : Load(db)
    \/ Tick
    \/ ops < MaxSaveOps /\ \E s \in SaveSlots, i \in SaveInstanceIds :
            CreateInstanceLockForNewInstance(s[1], s[2], i)
    \/ ops < MaxSaveOps /\ \E s \in SaveSlots, e \in SaveUpdateEvents :
            UpdateInstanceLockForPlayer(s[1], s[2], e)
    \/ ops < MaxSaveOps /\ \E e \in SaveUpdateEvents : UpdateSharedInstanceLock(e)

SpecSave == Init /\ [][NextSave]_vars

\* Load alone, on database images with rows of two players and two dungeons
\* in any order, and any subset of the instance ids in the shared table
OrphanSlots == {<<"P1", "IB">>, <<"P2", "IB">>, <<"P1", "FLEX">>}

OrphanLockRows(slot) ==
    {[guid |-> slot[1], dungeon |-> slot[2], instanceId |-> i, data |-> <<"r">>,
      completedEncountersMask |-> {0}, expiryTime |-> LoadExpiryTime(slot[2]),
      extended |-> FALSE] : i \in InstanceIds}

RECURSIVE OrphanRowSeqs(_)
OrphanRowSeqs(slots) ==
    {<<>>} \cup UNION {{<<row>> \o rest : row \in OrphanLockRows(slot),
                                          rest \in OrphanRowSeqs(slots \ {slot})} :
                       slot \in slots}

OrphanDbImages ==
    {[instance |-> S, character_instance_lock |-> rows] :
        S \in SUBSET {[instanceId |-> i, data |-> <<"s">>, completedEncountersMask |-> {}] :
                        i \in InstanceIds},
        rows \in OrphanRowSeqs(OrphanSlots)}

NextLoad ==
    \/ \E db \in OrphanDbImages : Load(db)
    \/ Tick
    \/ Unload

SpecLoad == Init /\ [][NextLoad]_vars

\* GetNextResetTime alone: the manager at any instant of one week (each day at
\* several hours, on the hour and one second before the next), asked for the
\* next reset under any configured hour and weekday
ResetHours == {0, 8, 9, 10, 23}
ResetInstants ==
    {day * SecPerDay + h * SecPerHour + s :
        day \in 3..9, h \in ResetHours, s \in {0, SecPerHour - 1}}
ConfiguredHours == {0, 9, 23}
ConfiguredDays == {0, 2, 6}
ResetIntervals == {"DAILY", "WEEKLY", "ANYTIME"}

InitReset ==
    /\ instanceLocksByPlayer = EmptyStore
    /\ temporaryInstanceLocksByPlayer = EmptyStore
    /\ instanceLockDataById = EmptyMap
    /\ sharedData = EmptyMap
    /\ unloading = FALSE
    /\ now \in ResetInstants
    /\ loaded = FALSE
    /\ failed = "none"
    /\ ops = 0
    /\ sharedDeletes = EmptyMap
    /\ released = EmptyMap
    /\ createdUnder = EmptyStore
    /\ events = <<>>
    /\ trans = <<>>
    /\ last = Call("new", "-", "-", 0, "-")

\* one call of GetNextResetTime; the log keeps its inputs and its result
CallGetNextResetTime(interval, resetHour, resetDay) ==
    /\ events' = << [ev |-> "GetNextResetTime",
                     arg |-> <<interval, resetHour, resetDay,
                               NextResetTime(interval, now, resetHour, resetDay)>>] >>
    /\ last' = Call("GetNextResetTime", "-", "-", 0, "-")
    /\ UNCHANGED <<instanceLocksByPlayer, temporaryInstanceLocksByPlayer, instanceLockDataById,
                   sharedData, unloading, now, loaded, failed, ops, sharedDeletes, released,
                   createdUnder, trans>>

NextReset ==
    \E interval \in ResetIntervals, resetHour \in ConfiguredHours, resetDay \in ConfiguredDays :
        CallGetNextResetTime(interval, resetHour, resetDay)

SpecReset == InitReset /\ [][NextReset]_vars

(* ------------------------------ claims ---------------------------------- *)
Perm == instanceLocksByPlayer
Temp == temporaryInstanceLocksByPlayer

\* the player has a lock under the key in both stores
InBothStores(p, k) == HasLock(Perm, p, k) /\ HasLock(Temp, p, k)

\* the instance locks a player may be asked to join
Candidates == [instanceId : {0} \cup InstanceIds, CompletedEncountersMask : SUBSET Bits]

CanJoin(p, d, c) == CanJoinInstanceLock(Perm, Temp, p, d, c, now)
FindActive(p, d, ignoreTemporary, ignoreExpired) ==
    FindActiveInstanceLock(Perm, Temp, p, d, ignoreTemporary, ignoreExpired, now)
HasActive(p, d) == FindActive(p, d, FALSE, TRUE) # "none"
ActiveLock(p, d) == LockAt(Perm, Temp, p, d, FindActive(p, d, FALSE, TRUE))

\* C1 as stated: no player has a binding under the same key in both the
\* permanent and the temporary store.
C1_StoresDisjoint == \A p \in Players, k \in Keys : ~InBothStores(p, k)

\* C1 amended: a key comes to be in both stores of a player only by a
\* createForNewInstance call for that player and key made while the player
\* holds a permanent binding under it; no other call adds a key to both stores,
\* and an updateForPlayer that promotes the temporary binding leaves the key in
\* the permanent store alone.
C1_OverlapOnlyByCreate ==
    [][\A p \in Players, k \in Keys :
          /\ (InBothStores(p, k)' /\ ~InBothStores(p, k))
                => /\ last'.op = "Create"
                   /\ last'.player = p
                   /\ GetKey(last'.dungeon) = k
                   /\ HasLock(Perm, p, k)
          /\ (last'.op = "Update" /\ last'.path = "promoted" /\ last'.player = p
                /\ GetKey(last'.dungeon) = k)
                => (HasLock(Perm, p, k)' /\ ~HasLock(Temp, p, k)')
      ]_vars

C1_Witness ==
    \E p \in Players, k \in Keys :
        failed = "none" /\ InBothStores(p, k) /\ last.op = "Create" /\ last.player = p /\ GetKey(last.dungeon) = k

\* C2: for a non-flex dungeon with a reset schedule and a player with an
\* active binding, canJoin answers LOCKED_TO_DIFFERENT_INSTANCE exactly when the
\* dungeon does not use encounter locks and the binding's instanceId is
\* nonzero and differs from the candidate's, and NONE in every other case.
C2_InstanceBoundAdmission ==
    \A p \in Players, d \in Dungeons, c \in Candidates :
        (Catalog[d].HasResetSchedule /\ ~Catalog[d].IsFlexLocking /\ HasActive(p, d))
        => LET b == ActiveLock(p, d)
               differs == /\ ~Catalog[d].IsUsingEncounterLocks
                          /\ b.instanceId # 0
                          /\ b.instanceId # c.instanceId
           IN  CanJoin(p, d, c) = IF differs THEN "TRANSFER_ABORT_LOCKED_TO_DIFFERENT_INSTANCE"
                                  ELSE "TRANSFER_ABORT_NONE"

C2_Witness ==
    /\ \E p \in Players, c \in Candidates :
          /\ HasActive(p, "IB")
          /\ ActiveLock(p, "IB").instanceId \notin {0, c.instanceId}
          /\ CanJoin(p, "IB", c) = "TRANSFER_ABORT_LOCKED_TO_DIFFERENT_INSTANCE"
    /\ \E c \in Candidates :
          /\ HasActive("P1", "ENC")
          /\ ActiveLock("P1", "ENC").instanceId \notin {0, c.instanceId}
          /\ CanJoin("P1", "ENC", c) = "TRANSFER_ABORT_NONE"

\* C3: for a flex-locking dungeon with a reset schedule and a player with an
\* active binding, canJoin answers NONE exactly when every bit of the player's
\* mask is set in the candidate's mask, and ALREADY_COMPLETED_ENCOUNTER
\* otherwise, whatever the two instanceIds are.
C3_FlexAdmission ==
    \A p \in Players, d \in Dungeons, c \in Candidates :
        (Catalog[d].HasResetSchedule /\ Catalog[d].IsFlexLocking /\ HasActive(p, d))
        => LET playerMask == ActiveLock(p, d).CompletedEncountersMask
           IN  CanJoin(p, d, c) = IF playerMask \subseteq c.CompletedEncountersMask
                                  THEN "TRANSFER_ABORT_NONE"
                                  ELSE "TRANSFER_ABORT_ALREADY_COMPLETED_ENCOUNTER"

C3_Witness ==
    \E c1, c2 \in Candidates :
        /\ HasActive("P1", "FLEX")
        /\ ActiveLock("P1", "FLEX").CompletedEncountersMask = {0}
        /\ ActiveLock("P1", "FLEX").instanceId # c1.instanceId
        /\ c1.CompletedEncountersMask = {0, 1}
        /\ CanJoin("P1", "FLEX", c1) = "TRANSFER_ABORT_NONE"
        /\ c2.instanceId = ActiveLock("P1", "FLEX").instanceId
        /\ c2.CompletedEncountersMask = {1}
        /\ CanJoin("P1", "FLEX", c2) = "TRANSFER_ABORT_ALREADY_COMPLETED_ENCOUNTER"

\* C4: FindActive returns the permanent binding under the key when there is
\* one and it is not expired, or is extended, or ignoreExpired is false;
\* otherwise nil when ignoreTemporary is true, and the temporary binding under
\* the key (or nil) when it is false. With the default flags an expired,
\* not extended permanent is never returned and a temporary takes its place.
C4_FindActive ==
    \A p \in Players, d \in Dungeons, ignoreTemporary \in BOOLEAN, ignoreExpired \in BOOLEAN :
        LET k == GetKey(d)
            found == FindActive(p, d, ignoreTemporary, ignoreExpired)
            visible == /\ HasLock(Perm, p, k)
                       /\ \/ Perm[p][k].expiryTime >= now
                          \/ Perm[p][k].extended
                          \/ ~ignoreExpired
        IN  /\ visible => found = "permanent"
            /\ (~visible /\ ignoreTemporary) => found = "none"
            /\ (~visible /\ ~ignoreTemporary) =>
                    found = IF HasLock(Temp, p, k) THEN "temporary" ELSE "none"

C4_Witness ==
    \E p \in Players, d \in Dungeons :
        /\ InBothStores(p, GetKey(d))
        /\ Perm[p][GetKey(d)].expiryTime < now
        /\ ~Perm[p][GetKey(d)].extended
        /\ FindActive(p, d, FALSE, TRUE) = "temporary"
        /\ FindActive(p, d, TRUE, TRUE) = "none"
        /\ FindActive(p, d, TRUE, FALSE) = "permanent"

DungeonOf(k) == CHOOSE d \in Dungeons : GetKey(d) = k
Registry == instanceLockDataById
Upgrades(i) == i \in DOMAIN Registry /\ Registry[i] # ExpiredHandle
HookEvents(evs, i) ==
    SelectSeq(evs, LAMBDA e : e.ev \in {"registry.erase", "DELETE FROM instance2"}
                              /\ e.arg = <<i>>)

\* C5: every permanent binding of an instance-bound dungeon holds a live
\* shared record whose InstanceId equals the binding's instanceId, also when
\* the binding was promoted from a temporary one whose record was made with
\* InstanceId 0.
C5_SharedRecordHasBindingsId ==
    failed = "none" =>
        \A p \in Players, k \in Keys :
            (HasLock(Perm, p, k) /\ IsInstanceIdBound(DungeonOf(k)))
            => /\ Perm[p][k].shared \in DOMAIN sharedData
               /\ sharedData[Perm[p][k].shared].InstanceId = Perm[p][k].instanceId

C5_Witness ==
    /\ failed = "none"
    /\ last.op = "Update"
    /\ last.path = "promoted"
    /\ last.dungeon = "IB"
    /\ LET b == Perm[last.player][GetKey("IB")]
       IN  /\ b.instanceId = last.instanceId
           /\ b.shared \in DOMAIN sharedData
           /\ sharedData[b.shared].InstanceId = last.instanceId
    /\ \E p \in Players \ {last.player} :
          /\ HasLock(Perm, p, GetKey("IB"))
          /\ Perm[p][GetKey("IB")].shared # Perm[last.player][GetKey("IB")].shared

RECURSIVE HookPairs(_, _)
HookPairs(i, n) ==
    IF n = 0 THEN <<>>
    ELSE << [ev |-> "registry.erase", arg |-> <<i>>],
            [ev |-> "DELETE FROM instance2", arg |-> <<i>>] >> \o HookPairs(i, n - 1)

\* the shared records with the InstanceId i whose last owner the step dropped
LastOwnerDropped(i) ==
    {r \in DOMAIN sharedData :
        sharedData[r].InstanceId = i /\ Owners(Perm', Temp', r) = {}}

\* C7: while the manager is not unloading, dropping an owner of a shared record
\* with nonzero InstanceId emits no shared-table DELETE for it as long as an
\* owner remains; dropping the last owner erases the registry entry and then
\* emits exactly one DELETE for that InstanceId.
C7_DeleteOnLastRelease ==
    [][(~unloading' /\ last'.op # "Load") =>
          \A i \in InstanceIds :
              LET n == Cardinality(LastOwnerDropped(i))
              IN  /\ Count(sharedDeletes', i) = Count(sharedDeletes, i) + n
                  /\ HookEvents(events', i) = HookPairs(i, n)
                  /\ n > 0 => i \notin DOMAIN Registry'
      ]_vars

C7_Witness ==
    \E i \in InstanceIds :
        /\ ~unloading
        /\ failed = "none"
        /\ Count(released, i) >= 2
        /\ Count(sharedDeletes, i) = 1
        /\ i \notin DOMAIN Registry
        /\ HookEvents(events, i) # <<>>

\* C8: Unload emits no shared-table DELETE: the flag is set before any binding
\* is destroyed, so the shared records released by Unload leave the number of
\* executed shared deletes unchanged.
C8_UnloadEmitsNoDelete ==
    [][unloading' =>
          /\ sharedDeletes' = sharedDeletes
          /\ \A n \in 1..Len(events') : events'[n].ev # "DELETE FROM instance2"
      ]_vars

C8_Witness ==
    /\ unloading
    /\ last.op = "Unload"
    /\ \E i \in InstanceIds :
          /\ Count(released, i) > 0
          /\ Count(sharedDeletes, i) = 0
          /\ \A r \in DOMAIN sharedData : sharedData[r].InstanceId # i

\* C9 as stated: after Unload the temporary store, the permanent store and the
\* registry are all empty.
C9_UnloadEmptiesAll ==
    unloading =>
        /\ Temp = EmptyStore
        /\ Perm = EmptyStore
        /\ Registry = EmptyMap

\* C10: an updateForPlayer that completes on a binding that was expired and
\* extended when the call began leaves it with expiryTime = nextReset(now) and
\* extended = false; on a binding that was not expired it leaves expiryTime
\* and extended as they were.
C10_Resurrection ==
    [][(last'.op = "Update" /\ failed' = "none" /\ last'.path # "created") =>
          LET p == last'.player
              d == last'.dungeon
              k == GetKey(d)
              before == IF last'.path = "found" THEN Perm[p][k] ELSE Temp[p][k]
              after == Perm'[p][k]
          IN  /\ (before.expiryTime < now /\ before.extended)
                    => (after.expiryTime = GetNextResetTime(d, now) /\ ~after.extended)
              /\ (before.expiryTime >= now)
                    => (after.expiryTime = before.expiryTime
                        /\ after.extended = before.extended)
      ]_vars

C10_Witness ==
    /\ last.op = "Update"
    /\ failed = "none"
    /\ last.path = "found"
    /\ \E n \in 1..Len(events) : events[n].ev = "log: expired instance lock is now active"
    /\ Perm[last.player][GetKey(last.dungeon)].expiryTime = GetNextResetTime(last.dungeon, now)
    /\ ~Perm[last.player][GetKey(last.dungeon)].extended

C12_Promotion ==
    [][(last'.op = "Update" /\ failed' = "none"
        /\ FindActive(last'.player, last'.dungeon, TRUE, TRUE) = "none"
        /\ HasLock(Temp, last'.player, GetKey(last'.dungeon))) =>
          LET p == last'.player
              d == last'.dungeon
              k == GetKey(d)
              before == Temp[p][k]
              after == Perm'[p][k]
          IN  /\ HasLock(Perm', p, k)
              /\ ~HasLock(Temp', p, k)
              /\ after.instanceId = last'.instanceId
              /\ after.mapId = before.mapId
              /\ after.difficultyId = before.difficultyId
              /\ after.shared = before.shared
              /\ IsInstanceIdBound(d) =>
                    /\ before.shared \in DOMAIN sharedData
                    /\ after.shared \in DOMAIN sharedData'
      ]_vars

\* a promotion that replaced an expired permanent binding of the instance-bound
\* dungeon, whose shared record lost an owner
C12_Witness ==
    /\ failed = "none"
    /\ last.op = "Update"
    /\ last.path = "promoted"
    /\ IsInstanceIdBound(last.dungeon)
    /\ ~HasLock(Temp, last.player, GetKey(last.dungeon))
    /\ Perm[last.player][GetKey(last.dungeon)].instanceId = last.instanceId
    /\ Perm[last.player][GetKey(last.dungeon)].shared \in DOMAIN sharedData
    /\ \E i \in InstanceIds \ {last.instanceId} : Count(released, i) > 0

\* what the claim has Load leave behind for the database image db
LoadPost(db) ==
    LET shared == {row.instanceId : row \in db.instance}
        rows == db.character_instance_lock
        orphan(row) == IsInstanceIdBound(row.dungeon) /\ row.instanceId \notin shared
        loadedAs(row, lock) ==
            /\ lock.instanceId = row.instanceId
            /\ lock.mapId = Catalog[row.dungeon].MapID
            /\ lock.difficultyId = Catalog[row.dungeon].DifficultyID
            /\ lock.expiryTime = row.expiryTime
            /\ lock.extended = row.extended
            /\ lock.Data = row.data
            /\ lock.CompletedEncountersMask = row.completedEncountersMask
    IN  /\ \A n \in 1..Len(rows) :
              LET row == rows[n]
                  k == GetKey(row.dungeon)
              IN  IF orphan(row)
                  THEN /\ ~HasLock(Perm', row.guid, k)
                       /\ \E m \in 1..Len(events') :
                             /\ events'[m].ev = "DELETE FROM character_instance_lock WHERE instanceId"
                             /\ events'[m].arg = <<row.instanceId>>
                  ELSE /\ HasLock(Perm', row.guid, k)
                       /\ loadedAs(row, Perm'[row.guid][k])
        /\ \A p \in Players, k \in Keys :
              (HasLock(Perm', p, k) /\ IsInstanceIdBound(DungeonOf(k)))
              => LET lock == Perm'[p][k]
                 IN  /\ lock.shared \in DOMAIN sharedData'
                     /\ sharedData'[lock.shared].InstanceId = lock.instanceId
                     /\ lock.instanceId \in DOMAIN Registry'
                     /\ Registry'[lock.instanceId] = lock.shared

\* C13: Load makes no binding for a per-player row of an instance-bound dungeon
\* whose instanceId has no row in the shared table and issues a delete for it,
\* loads every other row, before and after it, into the permanent store, and
\* leaves every instance-bound binding with a strong reference to the shared
\* record of its instanceId, for which the registry has a live handle.
C13_LoadHealsOrphans ==
    [][\A db \in OrphanDbImages : Load(db) => LoadPost(db)]_vars

\* P2's row of the instance-bound dungeon was an orphan; both rows of P1 were
\* loaded
C13_Witness ==
    /\ last.op = "Load"
    /\ ~HasLock(Perm, "P2", GetKey("IB"))
    /\ HasLock(Perm, "P1", GetKey("IB"))
    /\ HasLock(Perm, "P1", GetKey("FLEX"))
    /\ \E i \in InstanceIds :
          /\ Perm["P1"][GetKey("IB")].instanceId # i
          /\ events = << [ev |-> "DELETE FROM character_instance_lock WHERE instanceId",
                          arg |-> <<i>>] >>
          /\ i \notin DOMAIN Registry

C16_ZeroIdIsTemporary ==
    failed = "none" =>
        \A p \in Players, k \in Keys :
            /\ HasLock(Perm, p, k) => Perm[p][k].instanceId # 0
            /\ HasLock(Temp, p, k) => Temp[p][k].instanceId = 0

C16_Witness ==
    /\ failed = "none"
    /\ last.op = "Create"
    /\ last.path = "temporary"
    /\ last.instanceId # 0
    /\ Temp[last.player][GetKey(last.dungeon)].instanceId = 0
    /\ \E p \in Players, k \in Keys :
          /\ HasLock(Perm, p, k)
          /\ Perm[p][k].instanceId = last.instanceId
          /\ Perm[p][k].expiryTime >= now

\* C17 as stated: the ASSERT of updateForPlayer that an expired binding is
\* extended never fails, whatever calls and clock advances came before.
C17_ExpiredIsExtended == failed # "ASSERT:351"

\* C18 as stated: for an instance-bound dungeon the registry ASSERTs of
\* updateForPlayer never fail when it acts on a binding that already exists (a
\* usable permanent one, or a temporary one it promotes) with an event whose
\* instanceId is the one the binding's instance was created under, whatever
\* other players' createForNewInstance and updateForPlayer calls came before.
C18_RegistryAssertsHold ==
    [][LET p == last'.player
           d == last'.dungeon
           k == GetKey(d)
           usable == FindActive(p, d, TRUE, TRUE) = "permanent"
           promoted == ~usable /\ HasLock(Temp, p, k)
           sameInstance ==
               \/ usable /\ Perm[p][k].instanceId = last'.instanceId
               \/ promoted /\ k \in DOMAIN createdUnder[p]
                           /\ createdUnder[p][k] = last'.instanceId
       IN  (last'.op = "Update" /\ IsInstanceIdBound(d) /\ sameInstance)
           => failed' \notin {"ASSERT:325", "ASSERT:327", "ASSERT:328"}
      ]_vars

\* C19: setExtended sets extended to the flag on the player's permanent binding
\* under the key, expired or not, and emits exactly one UPDATE statement; it
\* changes no other field and no other binding. Without a permanent binding
\* under the key (also when there is a temporary one) it changes nothing and
\* emits no statement.
C19_SetExtendedFrame ==
    [][last'.op = "Extend" =>
          LET p == last'.player
              d == last'.dungeon
              k == GetKey(d)
          IN  /\ Temp' = Temp
              /\ Registry' = Registry
              /\ sharedData' = sharedData
              /\ sharedDeletes' = sharedDeletes
              /\ trans' = <<>>
              /\ failed' = failed
              /\ IF HasLock(Perm, p, k)
                 THEN /\ Len(events') = 1
                      /\ events'[1].ev = "UPDATE character_instance_lock SET extended"
                      /\ events'[1].arg[2] = p
                      /\ events'[1].arg[3] = Catalog[d].MapID
                      /\ events'[1].arg[4] = Catalog[d].LockID
                      /\ Perm' = [Perm EXCEPT ![p][k].extended = events'[1].arg[1]]
                 ELSE /\ Perm' = Perm
                      /\ events' = <<>>
      ]_vars

\* an expired permanent binding was extended while the player also holds a
\* temporary binding under the key
C19_Witness ==
    /\ last.op = "Extend"
    /\ last.path = "found"
    /\ Perm[last.player][GetKey(last.dungeon)].expiryTime < now
    /\ Perm[last.player][GetKey(last.dungeon)].extended
    /\ HasLock(Temp, last.player, GetKey(last.dungeon))
    /\ Len(events) = 1

\* C20: after a completed updateForPlayer the binding's completedEncountersMask
\* is its mask before the call, with the bit of the completed encounter when
\* one is present, and with the event's instanceCompletedEncountersMask exactly
\* when the dungeon is not encounter-locked. No bit of the binding is cleared.
C20_MaskUpdate ==
    [][(last'.op = "Update" /\ failed' = "none") =>
          LET p == last'.player
              d == last'.dungeon
              k == GetKey(d)
              e == last'.updateEvent
              before == IF last'.path = "found" THEN Perm[p][k].CompletedEncountersMask
                        ELSE IF last'.path = "promoted"
                        THEN Temp[p][k].CompletedEncountersMask
                        ELSE {}
              after == Perm'[p][k].CompletedEncountersMask
              encounterBit == {e.CompletedEncounter[n] : n \in 1..Len(e.CompletedEncounter)}
          IN  /\ before \subseteq after
              /\ after = before \cup encounterBit
                                \cup (IF Catalog[d].IsUsingEncounterLocks THEN {}
                                      ELSE e.InstanceCompletedEncountersMask)
      ]_vars

\* an encounter-locked binding that already held a bit was updated by an event
\* with an instance-wide mask, which contributed nothing
C20_Witness ==
    /\ last.op = "Update"
    /\ failed = "none"
    /\ last.path = "found"
    /\ Catalog[last.dungeon].IsUsingEncounterLocks
    /\ last.updateEvent.InstanceCompletedEncountersMask = {1}
    /\ Perm[last.player][GetKey(last.dungeon)].CompletedEncountersMask = {0}

\* the string a quoted literal denotes when the database parses the statement
RECURSIVE ParseLiteral(_)
ParseLiteral(str) ==
    IF str = <<>> THEN <<>>
    ELSE IF Head(str) = "\\" /\ Len(str) >= 2
    THEN <<str[2]>> \o ParseLiteral(Tail(Tail(str)))
    ELSE <<Head(str)>> \o ParseLiteral(Tail(str))

\* a table (primary key -> row) after executing the statements in order; an
\* INSERT under a key that is present is a duplicate-key error and inserts nothing
RECURSIVE Replay(_, _)
Replay(table, stmts) ==
    IF stmts = <<>> THEN table
    ELSE LET st == Head(stmts)
             next == IF st.stmt = "DELETE" THEN MapErase(table, st.key)
                     ELSE IF st.key \in DOMAIN table THEN table
                     ELSE MapPut(table, st.key,
                                 [st.row[1] EXCEPT !.data = ParseLiteral(@)])
         IN  Replay(next, Tail(stmts))

\* the row that equals the in-memory lock or shared record after the call
MemoryRow ==
    IF last.op = "Update"
    THEN LET lock == Perm[last.player][GetKey(last.dungeon)]
         IN  [instanceId |-> lock.instanceId,
              difficulty |-> Catalog[last.dungeon].DifficultyID,
              data |-> lock.Data, completedEncountersMask |-> lock.CompletedEncountersMask,
              expiryTime |-> lock.expiryTime, extended |-> lock.extended]
    ELSE LET data == sharedData[Registry[last.instanceId]]
         IN  [instanceId |-> data.InstanceId, data |-> data.Data,
              completedEncountersMask |-> data.CompletedEncountersMask]
PrimaryKey ==
    IF last.op = "Update"
    THEN <<last.player, Catalog[last.dungeon].MapID, Catalog[last.dungeon].LockID>>
    ELSE <<last.instanceId>>
SaveTable == IF last.op = "Update" THEN "character_instance_lock" ELSE "instance2"

C22_TemporaryNeverRejects ==
    \A p \in Players, d \in Dungeons :
        FindActive(p, d, FALSE, TRUE) = "temporary" =>
            /\ Temp[p][GetKey(d)].instanceId = 0
            /\ Temp[p][GetKey(d)].CompletedEncountersMask = {}
            /\ \A c \in Candidates : CanJoin(p, d, c) = "TRANSFER_ABORT_NONE"

\* the temporary binding is returned past an expired permanent binding of an
\* instance-bound dungeon that is bound to an instance
C22_Witness ==
    \E p \in Players, d \in Dungeons :
        /\ failed = "none"
        /\ IsInstanceIdBound(d)
        /\ FindActive(p, d, FALSE, TRUE) = "temporary"
        /\ HasLock(Perm, p, GetKey(d))
        /\ Perm[p][GetKey(d)].instanceId # 0

====
